---- MODULE Spec2Model ----
(***************************************************************************)
(* Model of the manual QPACK encoder (research/qpack_manual.py): the       *)
(* prefixed-integer and string codecs, the four encoder-stream instruction *)
(* builders, the dynamic table tracker and ManualQpackEncoder.  Bytes are  *)
(* integers 0..255 and byte strings are sequences of them.                 *)
(***************************************************************************)
EXTENDS Integers, Sequences, FiniteSets, TLC

(* ------------------------------ bounds --------------------------------- *)

\* Integers 0..MaxSmallInt and a window of the same width starting at
\* WindowBase are fed to the integer codec and the instruction builders.
MaxSmallInt == 400
WindowBase == 16380
\* Longest literal name / value handed to the instruction builders.
MaxNameLen == 130
\* Ceiling the caller passes as max_table_capacity.
MaxCap == 100
\* Length of the long literal name the encoder is driven with.
LongNameLen == 31
\* Number of encoder calls explored.
MaxCalls == 4
\* Longest byte string handed to decode_integer directly.
MaxDataLen == 3

(* --------------------------- byte helpers ------------------------------ *)

\* b"c" * n
Rep(c, n) == [i \in 1..n |-> c]

\* 1 << n
RECURSIVE Pow2(_)
Pow2(n) == IF n <= 0 THEN 1 ELSE 2 * Pow2(n - 1)

\* b & mask, for mask = 2^k - 1
AndMask(b, k) == b % Pow2(k)

\* bit k of b (0 or 1)
Bit(b, k) == (b \div Pow2(k)) % 2

\* b | 2^k
OrBit(b, k) == IF Bit(b, k) = 1 THEN b ELSE b + Pow2(k)

\* buf[0] |= 2^k on a non-empty bytearray
OrFirst(buf, k) == [buf EXCEPT ![1] = OrBit(buf[1], k)]

\* Outcome of a call: a returned value, or a raised exception.
Return(x) == [ok |-> TRUE, err |-> "none", val |-> x]
Raise(kind) == [ok |-> FALSE, err |-> kind, val |-> <<>>]

(* ------------------ 1A. integer codec (RFC 9204 4.1.1) ----------------- *)

\* The continuation loop of encode_integer: while value >= 0x80 ...
RECURSIVE EncodeTail(_)
EncodeTail(value) ==
  IF value >= 128
    THEN <<(value % 128) + 128>> \o EncodeTail(value \div 128)
    ELSE <<value>>

\* encode_integer() that also emits a value equal to the prefix maximum as
\* a single byte.
encode_integer_OffByOne(value, prefix_bits) ==
  IF value < 0 THEN Raise("ValueError")
  ELSE IF ~(1 <= prefix_bits /\ prefix_bits <= 8) THEN Raise("ValueError")
  ELSE LET max_prefix == Pow2(prefix_bits) - 1 IN
       IF value <= max_prefix
         THEN Return(<<value>>)
         ELSE Return(<<max_prefix>> \o EncodeTail(value - max_prefix))

encode_integer(value, prefix_bits) ==
  IF value < 0 THEN Raise("ValueError")
  ELSE IF ~(1 <= prefix_bits /\ prefix_bits <= 8) THEN Raise("ValueError")
  ELSE LET max_prefix == Pow2(prefix_bits) - 1 IN
       IF value < max_prefix
         THEN Return(<<value>>)
         ELSE Return(<<max_prefix>> \o EncodeTail(value - max_prefix))

\* data[i] with Python's indexing: a negative i counts from the end.
PyIndexOk(data, i) == -Len(data) <= i /\ i < Len(data)
PyIndex(data, i) == IF i >= 0 THEN data[i + 1] ELSE data[Len(data) + i + 1]

\* The "while True" loop of decode_integer.
RECURSIVE DecodeTail(_, _, _, _, _)
DecodeTail(data, offset, consumed, value, shift) ==
  IF offset + consumed >= Len(data) THEN Raise("ValueError")
  ELSE IF ~PyIndexOk(data, offset + consumed) THEN Raise("IndexError")
  ELSE LET byte == PyIndex(data, offset + consumed)
           v2 == value + (byte % 128) * Pow2(shift)
       IN IF Bit(byte, 7) = 0
            THEN Return(<<v2, consumed + 1>>)
            ELSE DecodeTail(data, offset, consumed + 1, v2, shift + 7)

decode_integer(data, offset, prefix_bits) ==
  IF ~(1 <= prefix_bits /\ prefix_bits <= 8) THEN Raise("ValueError")
  ELSE IF offset >= Len(data) THEN Raise("ValueError")
  ELSE IF ~PyIndexOk(data, offset) THEN Raise("IndexError")
  ELSE LET max_prefix == Pow2(prefix_bits) - 1
           value == AndMask(PyIndex(data, offset), prefix_bits)
       IN IF value < max_prefix
            THEN Return(<<value, 1>>)
            ELSE DecodeTail(data, offset, 1, value, 0)

(* ------------------ 1B. string codec (RFC 9204 4.1.2) ------------------ *)

encode_string(value, use_huffman) ==
  IF use_huffman THEN Raise("NotImplementedError")
  ELSE LET length_bytes == encode_integer(Len(value), 7) IN
       IF ~length_bytes.ok THEN length_bytes
       ELSE Return(length_bytes.val \o value)

(* ------------- 1C. encoder stream instructions (4.3.1-4.3.4) ----------- *)

set_dynamic_table_capacity(c) ==
  IF c < 0 THEN Raise("ValueError")
  ELSE LET int_bytes == encode_integer(c, 5) IN
       IF ~int_bytes.ok THEN int_bytes
       ELSE Return(OrFirst(int_bytes.val, 5))

\* insert_with_name_ref() that encodes the index with a 7-bit prefix.
insert_with_name_ref_Prefix7(index, value, is_static) ==
  IF index < 0 THEN Raise("ValueError")
  ELSE LET int_bytes == encode_integer(index, 7) IN
       IF ~int_bytes.ok THEN int_bytes
       ELSE LET buf1 == OrFirst(int_bytes.val, 7)
                buf2 == IF is_static THEN OrFirst(buf1, 6) ELSE buf1
                str == encode_string(value, FALSE)
            IN IF ~str.ok THEN str ELSE Return(buf2 \o str.val)

insert_with_name_ref(index, value, is_static) ==
  IF index < 0 THEN Raise("ValueError")
  ELSE LET int_bytes == encode_integer(index, 6) IN
       IF ~int_bytes.ok THEN int_bytes
       ELSE LET buf1 == OrFirst(int_bytes.val, 7)
                buf2 == IF is_static THEN OrFirst(buf1, 6) ELSE buf1
                str == encode_string(value, FALSE)
            IN IF ~str.ok THEN str ELSE Return(buf2 \o str.val)

insert_with_literal_name(name, value) ==
  LET name_str == encode_string(name, FALSE) IN
  IF ~name_str.ok THEN name_str
  ELSE LET buf == OrFirst(name_str.val, 6)
           str == encode_string(value, FALSE)
       IN IF ~str.ok THEN str ELSE Return(buf \o str.val)

duplicate(index) ==
  IF index < 0 THEN Raise("ValueError")
  ELSE encode_integer(index, 5)

(* ---------------------------- static table ----------------------------- *)

STATIC_TABLE ==
  << <<<<58, 97, 117, 116, 104, 111, 114, 105, 116, 121>>, <<>>>>,
     <<<<58, 112, 97, 116, 104>>, <<47>>>>,
     <<<<97, 103, 101>>, <<48>>>>,
     <<<<99, 111, 110, 116, 101, 110, 116, 45, 100, 105, 115, 112, 111, 115, 105, 116, 105, 111, 110>>, <<>>>>,
     <<<<99, 111, 110, 116, 101, 110, 116, 45, 108, 101, 110, 103, 116, 104>>, <<48>>>>,
     <<<<99, 111, 111, 107, 105, 101>>, <<>>>>,
     <<<<100, 97, 116, 101>>, <<>>>>,
     <<<<101, 116, 97, 103>>, <<>>>>,
     <<<<105, 102, 45, 109, 111, 100, 105, 102, 105, 101, 100, 45, 115, 105, 110, 99, 101>>, <<>>>>,
     <<<<105, 102, 45, 110, 111, 110, 101, 45, 109, 97, 116, 99, 104>>, <<>>>>,
     <<<<108, 97, 115, 116, 45, 109, 111, 100, 105, 102, 105, 101, 100>>, <<>>>>,
     <<<<108, 105, 110, 107>>, <<>>>>,
     <<<<108, 111, 99, 97, 116, 105, 111, 110>>, <<>>>>,
     <<<<114, 101, 102, 101, 114, 101, 114>>, <<>>>>,
     <<<<115, 101, 116, 45, 99, 111, 111, 107, 105, 101>>, <<>>>>,
     <<<<58, 109, 101, 116, 104, 111, 100>>, <<67, 79, 78, 78, 69, 67, 84>>>>,
     <<<<58, 109, 101, 116, 104, 111, 100>>, <<68, 69, 76, 69, 84, 69>>>>,
     <<<<58, 109, 101, 116, 104, 111, 100>>, <<71, 69, 84>>>>,
     <<<<58, 109, 101, 116, 104, 111, 100>>, <<72, 69, 65, 68>>>>,
     <<<<58, 109, 101, 116, 104, 111, 100>>, <<79, 80, 84, 73, 79, 78, 83>>>>,
     <<<<58, 109, 101, 116, 104, 111, 100>>, <<80, 79, 83, 84>>>>,
     <<<<58, 109, 101, 116, 104, 111, 100>>, <<80, 85, 84>>>>,
     <<<<58, 115, 99, 104, 101, 109, 101>>, <<104, 116, 116, 112>>>>,
     <<<<58, 115, 99, 104, 101, 109, 101>>, <<104, 116, 116, 112, 115>>>>,
     <<<<58, 115, 116, 97, 116, 117, 115>>, <<49, 48, 51>>>>,
     <<<<58, 115, 116, 97, 116, 117, 115>>, <<50, 48, 48>>>>,
     <<<<58, 115, 116, 97, 116, 117, 115>>, <<51, 48, 52>>>>,
     <<<<58, 115, 116, 97, 116, 117, 115>>, <<52, 48, 52>>>>,
     <<<<58, 115, 116, 97, 116, 117, 115>>, <<53, 48, 51>>>>,
     <<<<97, 99, 99, 101, 112, 116>>, <<42, 47, 42>>>>,
     <<<<97, 99, 99, 101, 112, 116>>, <<97, 112, 112, 108, 105, 99, 97, 116, 105, 111, 110, 47, 100, 110, 115, 45, 109, 101, 115, 115, 97, 103, 101>>>>,
     <<<<97, 99, 99, 101, 112, 116, 45, 101, 110, 99, 111, 100, 105, 110, 103>>, <<103, 122, 105, 112, 44, 32, 100, 101, 102, 108, 97, 116, 101, 44, 32, 98, 114>>>>,
     <<<<97, 99, 99, 101, 112, 116, 45, 114, 97, 110, 103, 101, 115>>, <<98, 121, 116, 101, 115>>>>,
     <<<<97, 99, 99, 101, 115, 115, 45, 99, 111, 110, 116, 114, 111, 108, 45, 97, 108, 108, 111, 119, 45, 104, 101, 97, 100, 101, 114, 115>>, <<99, 97, 99, 104, 101, 45, 99, 111, 110, 116, 114, 111, 108>>>>,
     <<<<97, 99, 99, 101, 115, 115, 45, 99, 111, 110, 116, 114, 111, 108, 45, 97, 108, 108, 111, 119, 45, 104, 101, 97, 100, 101, 114, 115>>, <<99, 111, 110, 116, 101, 110, 116, 45, 116, 121, 112, 101>>>>,
     <<<<97, 99, 99, 101, 115, 115, 45, 99, 111, 110, 116, 114, 111, 108, 45, 97, 108, 108, 111, 119, 45, 111, 114, 105, 103, 105, 110>>, <<42>>>>,
     <<<<99, 97, 99, 104, 101, 45, 99, 111, 110, 116, 114, 111, 108>>, <<109, 97, 120, 45, 97, 103, 101, 61, 48>>>>,
     <<<<99, 97, 99, 104, 101, 45, 99, 111, 110, 116, 114, 111, 108>>, <<109, 97, 120, 45, 97, 103, 101, 61, 50, 53, 57, 50, 48, 48, 48>>>>,
     <<<<99, 97, 99, 104, 101, 45, 99, 111, 110, 116, 114, 111, 108>>, <<109, 97, 120, 45, 97, 103, 101, 61, 54, 48, 52, 56, 48, 48>>>>,
     <<<<99, 97, 99, 104, 101, 45, 99, 111, 110, 116, 114, 111, 108>>, <<110, 111, 45, 99, 97, 99, 104, 101>>>>,
     <<<<99, 97, 99, 104, 101, 45, 99, 111, 110, 116, 114, 111, 108>>, <<110, 111, 45, 115, 116, 111, 114, 101>>>>,
     <<<<99, 97, 99, 104, 101, 45, 99, 111, 110, 116, 114, 111, 108>>, <<112, 117, 98, 108, 105, 99, 44, 32, 109, 97, 120, 45, 97, 103, 101, 61, 51, 49, 53, 51, 54, 48, 48, 48>>>>,
     <<<<99, 111, 110, 116, 101, 110, 116, 45, 101, 110, 99, 111, 100, 105, 110, 103>>, <<98, 114>>>>,
     <<<<99, 111, 110, 116, 101, 110, 116, 45, 101, 110, 99, 111, 100, 105, 110, 103>>, <<103, 122, 105, 112>>>>,
     <<<<99, 111, 110, 116, 101, 110, 116, 45, 116, 121, 112, 101>>, <<97, 112, 112, 108, 105, 99, 97, 116, 105, 111, 110, 47, 100, 110, 115, 45, 109, 101, 115, 115, 97, 103, 101>>>>,
     <<<<99, 111, 110, 116, 101, 110, 116, 45, 116, 121, 112, 101>>, <<97, 112, 112, 108, 105, 99, 97, 116, 105, 111, 110, 47, 106, 97, 118, 97, 115, 99, 114, 105, 112, 116>>>>,
     <<<<99, 111, 110, 116, 101, 110, 116, 45, 116, 121, 112, 101>>, <<97, 112, 112, 108, 105, 99, 97, 116, 105, 111, 110, 47, 106, 115, 111, 110>>>>,
     <<<<99, 111, 110, 116, 101, 110, 116, 45, 116, 121, 112, 101>>, <<97, 112, 112, 108, 105, 99, 97, 116, 105, 111, 110, 47, 120, 45, 119, 119, 119, 45, 102, 111, 114, 109, 45, 117, 114, 108, 101, 110, 99, 111, 100, 101, 100>>>>,
     <<<<99, 111, 110, 116, 101, 110, 116, 45, 116, 121, 112, 101>>, <<105, 109, 97, 103, 101, 47, 103, 105, 102>>>>,
     <<<<99, 111, 110, 116, 101, 110, 116, 45, 116, 121, 112, 101>>, <<105, 109, 97, 103, 101, 47, 106, 112, 101, 103>>>>,
     <<<<99, 111, 110, 116, 101, 110, 116, 45, 116, 121, 112, 101>>, <<105, 109, 97, 103, 101, 47, 112, 110, 103>>>>,
     <<<<99, 111, 110, 116, 101, 110, 116, 45, 116, 121, 112, 101>>, <<116, 101, 120, 116, 47, 99, 115, 115>>>>,
     <<<<99, 111, 110, 116, 101, 110, 116, 45, 116, 121, 112, 101>>, <<116, 101, 120, 116, 47, 104, 116, 109, 108, 59, 32, 99, 104, 97, 114, 115, 101, 116, 61, 117, 116, 102, 45, 56>>>>,
     <<<<99, 111, 110, 116, 101, 110, 116, 45, 116, 121, 112, 101>>, <<116, 101, 120, 116, 47, 112, 108, 97, 105, 110>>>>,
     <<<<99, 111, 110, 116, 101, 110, 116, 45, 116, 121, 112, 101>>, <<116, 101, 120, 116, 47, 112, 108, 97, 105, 110, 59, 99, 104, 97, 114, 115, 101, 116, 61, 117, 116, 102, 45, 56>>>>,
     <<<<114, 97, 110, 103, 101>>, <<98, 121, 116, 101, 115, 61, 48, 45>>>>,
     <<<<115, 116, 114, 105, 99, 116, 45, 116, 114, 97, 110, 115, 112, 111, 114, 116, 45, 115, 101, 99, 117, 114, 105, 116, 121>>, <<109, 97, 120, 45, 97, 103, 101, 61, 51, 49, 53, 51, 54, 48, 48, 48>>>>,
     <<<<115, 116, 114, 105, 99, 116, 45, 116, 114, 97, 110, 115, 112, 111, 114, 116, 45, 115, 101, 99, 117, 114, 105, 116, 121>>, <<109, 97, 120, 45, 97, 103, 101, 61, 51, 49, 53, 51, 54, 48, 48, 48, 59, 32, 105, 110, 99, 108, 117, 100, 101, 115, 117, 98, 100, 111, 109, 97, 105, 110, 115>>>>,
     <<<<115, 116, 114, 105, 99, 116, 45, 116, 114, 97, 110, 115, 112, 111, 114, 116, 45, 115, 101, 99, 117, 114, 105, 116, 121>>, <<109, 97, 120, 45, 97, 103, 101, 61, 51, 49, 53, 51, 54, 48, 48, 48, 59, 32, 105, 110, 99, 108, 117, 100, 101, 115, 117, 98, 100, 111, 109, 97, 105, 110, 115, 59, 32, 112, 114, 101, 108, 111, 97, 100>>>>,
     <<<<118, 97, 114, 121>>, <<97, 99, 99, 101, 112, 116, 45, 101, 110, 99, 111, 100, 105, 110, 103>>>>,
     <<<<118, 97, 114, 121>>, <<111, 114, 105, 103, 105, 110>>>>,
     <<<<120, 45, 99, 111, 110, 116, 101, 110, 116, 45, 116, 121, 112, 101, 45, 111, 112, 116, 105, 111, 110, 115>>, <<110, 111, 115, 110, 105, 102, 102>>>>,
     <<<<120, 45, 120, 115, 115, 45, 112, 114, 111, 116, 101, 99, 116, 105, 111, 110>>, <<49, 59, 32, 109, 111, 100, 101, 61, 98, 108, 111, 99, 107>>>>,
     <<<<58, 115, 116, 97, 116, 117, 115>>, <<49, 48, 48>>>>,
     <<<<58, 115, 116, 97, 116, 117, 115>>, <<50, 48, 52>>>>,
     <<<<58, 115, 116, 97, 116, 117, 115>>, <<50, 48, 54>>>>,
     <<<<58, 115, 116, 97, 116, 117, 115>>, <<51, 48, 50>>>>,
     <<<<58, 115, 116, 97, 116, 117, 115>>, <<52, 48, 48>>>>,
     <<<<58, 115, 116, 97, 116, 117, 115>>, <<52, 48, 51>>>>,
     <<<<58, 115, 116, 97, 116, 117, 115>>, <<52, 50, 49>>>>,
     <<<<58, 115, 116, 97, 116, 117, 115>>, <<52, 50, 53>>>>,
     <<<<58, 115, 116, 97, 116, 117, 115>>, <<53, 48, 48>>>>,
     <<<<97, 99, 99, 101, 112, 116, 45, 108, 97, 110, 103, 117, 97, 103, 101>>, <<>>>>,
     <<<<97, 99, 99, 101, 115, 115, 45, 99, 111, 110, 116, 114, 111, 108, 45, 97, 108, 108, 111, 119, 45, 99, 114, 101, 100, 101, 110, 116, 105, 97, 108, 115>>, <<70, 65, 76, 83, 69>>>>,
     <<<<97, 99, 99, 101, 115, 115, 45, 99, 111, 110, 116, 114, 111, 108, 45, 97, 108, 108, 111, 119, 45, 99, 114, 101, 100, 101, 110, 116, 105, 97, 108, 115>>, <<84, 82, 85, 69>>>>,
     <<<<97, 99, 99, 101, 115, 115, 45, 99, 111, 110, 116, 114, 111, 108, 45, 97, 108, 108, 111, 119, 45, 104, 101, 97, 100, 101, 114, 115>>, <<42>>>>,
     <<<<97, 99, 99, 101, 115, 115, 45, 99, 111, 110, 116, 114, 111, 108, 45, 97, 108, 108, 111, 119, 45, 109, 101, 116, 104, 111, 100, 115>>, <<103, 101, 116>>>>,
     <<<<97, 99, 99, 101, 115, 115, 45, 99, 111, 110, 116, 114, 111, 108, 45, 97, 108, 108, 111, 119, 45, 109, 101, 116, 104, 111, 100, 115>>, <<103, 101, 116, 44, 32, 112, 111, 115, 116, 44, 32, 111, 112, 116, 105, 111, 110, 115>>>>,
     <<<<97, 99, 99, 101, 115, 115, 45, 99, 111, 110, 116, 114, 111, 108, 45, 97, 108, 108, 111, 119, 45, 109, 101, 116, 104, 111, 100, 115>>, <<111, 112, 116, 105, 111, 110, 115>>>>,
     <<<<97, 99, 99, 101, 115, 115, 45, 99, 111, 110, 116, 114, 111, 108, 45, 101, 120, 112, 111, 115, 101, 45, 104, 101, 97, 100, 101, 114, 115>>, <<99, 111, 110, 116, 101, 110, 116, 45, 108, 101, 110, 103, 116, 104>>>>,
     <<<<97, 99, 99, 101, 115, 115, 45, 99, 111, 110, 116, 114, 111, 108, 45, 114, 101, 113, 117, 101, 115, 116, 45, 104, 101, 97, 100, 101, 114, 115>>, <<99, 111, 110, 116, 101, 110, 116, 45, 116, 121, 112, 101>>>>,
     <<<<97, 99, 99, 101, 115, 115, 45, 99, 111, 110, 116, 114, 111, 108, 45, 114, 101, 113, 117, 101, 115, 116, 45, 109, 101, 116, 104, 111, 100>>, <<103, 101, 116>>>>,
     <<<<97, 99, 99, 101, 115, 115, 45, 99, 111, 110, 116, 114, 111, 108, 45, 114, 101, 113, 117, 101, 115, 116, 45, 109, 101, 116, 104, 111, 100>>, <<112, 111, 115, 116>>>>,
     <<<<97, 108, 116, 45, 115, 118, 99>>, <<99, 108, 101, 97, 114>>>>,
     <<<<97, 117, 116, 104, 111, 114, 105, 122, 97, 116, 105, 111, 110>>, <<>>>>,
     <<<<99, 111, 110, 116, 101, 110, 116, 45, 115, 101, 99, 117, 114, 105, 116, 121, 45, 112, 111, 108, 105, 99, 121>>, <<115, 99, 114, 105, 112, 116, 45, 115, 114, 99, 32, 39, 110, 111, 110, 101, 39, 59, 32, 111, 98, 106, 101, 99, 116, 45, 115, 114, 99, 32, 39, 110, 111, 110, 101, 39, 59, 32, 98, 97, 115, 101, 45, 117, 114, 105, 32, 39, 110, 111, 110, 101, 39>>>>,
     <<<<101, 97, 114, 108, 121, 45, 100, 97, 116, 97>>, <<49>>>>,
     <<<<101, 120, 112, 101, 99, 116, 45, 99, 116>>, <<>>>>,
     <<<<102, 111, 114, 119, 97, 114, 100, 101, 100>>, <<>>>>,
     <<<<105, 102, 45, 114, 97, 110, 103, 101>>, <<>>>>,
     <<<<111, 114, 105, 103, 105, 110>>, <<>>>>,
     <<<<112, 117, 114, 112, 111, 115, 101>>, <<112, 114, 101, 102, 101, 116, 99, 104>>>>,
     <<<<115, 101, 114, 118, 101, 114>>, <<>>>>,
     <<<<116, 105, 109, 105, 110, 103, 45, 97, 108, 108, 111, 119, 45, 111, 114, 105, 103, 105, 110>>, <<42>>>>,
     <<<<117, 112, 103, 114, 97, 100, 101, 45, 105, 110, 115, 101, 99, 117, 114, 101, 45, 114, 101, 113, 117, 101, 115, 116, 115>>, <<49>>>>,
     <<<<117, 115, 101, 114, 45, 97, 103, 101, 110, 116>>, <<>>>>,
     <<<<120, 45, 102, 111, 114, 119, 97, 114, 100, 101, 100, 45, 102, 111, 114>>, <<>>>>,
     <<<<120, 45, 102, 114, 97, 109, 101, 45, 111, 112, 116, 105, 111, 110, 115>>, <<100, 101, 110, 121>>>>,
     <<<<120, 45, 102, 114, 97, 109, 101, 45, 111, 112, 116, 105, 111, 110, 115>>, <<115, 97, 109, 101, 111, 114, 105, 103, 105, 110>>>> >>

STATIC_TABLE_SIZE == Len(STATIC_TABLE)

(* -------------------- 1D. dynamic table state tracker ------------------ *)

ENTRY_OVERHEAD == 32

\* DynamicTableEntry(name, value).  The id field is a history label, not a
\* field of the class: the value of insert_count the insertion produced.
DynamicTableEntry(name, value, id) == [name |-> name, value |-> value, id |-> id]

\* size that leaves the value out.
EntrySize_NoValue(e) == Len(e.name) + ENTRY_OVERHEAD

\* DynamicTableEntry.size
EntrySize(e) == Len(e.name) + Len(e.value) + ENTRY_OVERHEAD

RECURSIVE SumSizes(_)
SumSizes(es) == IF es = <<>> THEN 0 ELSE EntrySize(Head(es)) + SumSizes(Tail(es))

\* DynamicTableTracker.__init__
NewTracker == [entries |-> <<>>, capacity |-> 0, insert_count |-> 0]

\* DynamicTableTracker.current_size
current_size(t) == SumSizes(t.entries)

\* list.pop(0): removes the first element, the newest entry
PopNewest(es) == SubSeq(es, 2, Len(es))

\* list.pop(): removes the last element, the oldest entry
Pop(es) == SubSeq(es, 1, Len(es) - 1)

\* A tracker call ends normally or raises; t is the tracker as the call left it.
TOk(t) == [ok |-> TRUE, err |-> "none", t |-> t]
TRaise(kind, t) == [ok |-> FALSE, err |-> kind, t |-> t]

\* _evict() that removes nothing.
Tracker_evict_None(t) == t

\* _evict() that also evicts when the table is exactly full.
RECURSIVE Tracker_evict_Eager(_)
Tracker_evict_Eager(t) ==
  IF current_size(t) >= t.capacity /\ t.entries # <<>>
    THEN Tracker_evict_Eager([t EXCEPT !.entries = Pop(@)])
    ELSE t

\* DynamicTableTracker._evict
RECURSIVE Tracker_evict(_)
Tracker_evict(t) ==
  IF current_size(t) > t.capacity /\ t.entries # <<>>
    THEN Tracker_evict([t EXCEPT !.entries = Pop(@)])
    ELSE t

\* set_capacity() that stores the capacity and does not evict.
Tracker_set_capacity_NoEvict(t, c) == TOk([t EXCEPT !.capacity = c])

\* DynamicTableTracker.set_capacity
Tracker_set_capacity(t, c) == TOk(Tracker_evict([t EXCEPT !.capacity = c]))

\* The eviction loop of insert() stopping one entry late: it also evicts when
\* the new entry would fit exactly.
RECURSIVE InsertEvict_Eager(_, _)
InsertEvict_Eager(t, size) ==
  IF current_size(t) + size >= t.capacity /\ t.entries # <<>>
    THEN InsertEvict_Eager([t EXCEPT !.entries = Pop(@)], size)
    ELSE TOk(t)

\* The eviction loop of insert() popping while the new entry does not leave
\* a byte to spare.
RECURSIVE InsertEvict_NoSpare(_, _)
InsertEvict_NoSpare(t, size) ==
  IF current_size(t) + size >= t.capacity
    THEN IF t.entries = <<>> THEN TRaise("IndexError", t)
         ELSE InsertEvict_NoSpare([t EXCEPT !.entries = Pop(@)], size)
    ELSE TOk(t)

\* The insertion without its eviction loop.
InsertEvict_NoLoop(t, size) == TOk(t)

\* The eviction loop of DynamicTableTracker.insert; pop() of an empty list
\* raises IndexError.
RECURSIVE InsertEvict(_, _)
InsertEvict(t, size) ==
  IF current_size(t) + size > t.capacity
    THEN IF t.entries = <<>> THEN TRaise("IndexError", t)
         ELSE InsertEvict([t EXCEPT !.entries = Pop(@)], size)
    ELSE TOk(t)

\* insert() that keeps insert_count equal to the number of present entries.
Tracker_insert_CountPresent(t, name, value) ==
  LET entry == DynamicTableEntry(name, value, t.insert_count + 1) IN
  IF EntrySize(entry) > t.capacity THEN TRaise("ValueError", t)
  ELSE LET r == InsertEvict(t, EntrySize(entry)) IN
       IF ~r.ok THEN r
       ELSE TOk([r.t EXCEPT !.entries = <<entry>> \o @,
                            !.insert_count = Len(r.t.entries) + 1])

\* DynamicTableTracker.insert
Tracker_insert(t, name, value) ==
  LET entry == DynamicTableEntry(name, value, t.insert_count + 1) IN
  IF EntrySize(entry) > t.capacity THEN TRaise("ValueError", t)
  ELSE LET r == InsertEvict(t, EntrySize(entry)) IN
       IF ~r.ok THEN r
       ELSE TOk([r.t EXCEPT !.entries = <<entry>> \o @,
                            !.insert_count = @ + 1])

\* duplicate() that counts the index from the oldest entry.
Tracker_duplicate_FromOldest(t, relative_index) ==
  IF relative_index < 0 \/ relative_index >= Len(t.entries)
    THEN TRaise("ValueError", t)
    ELSE LET source == t.entries[Len(t.entries) - relative_index] IN
         Tracker_insert(t, source.name, source.value)

\* DynamicTableTracker.duplicate
Tracker_duplicate(t, relative_index) ==
  IF relative_index < 0 \/ relative_index >= Len(t.entries)
    THEN TRaise("ValueError", t)
    ELSE LET source == t.entries[relative_index + 1] IN
         Tracker_insert(t, source.name, source.value)

(* ------------------------ 1E. ManualQpackEncoder ----------------------- *)

\* An encoder call returns instruction bytes or raises; table is the tracker
\* as the call left it, and at tells whether an exception came from the
\* encoder's own checks and instruction building or out of the tracker call.
EOk(bytes, t) ==
  [ok |-> TRUE, err |-> "none", at |-> "none", bytes |-> bytes, table |-> t]
ERaise(kind, t) ==
  [ok |-> FALSE, err |-> kind, at |-> "encoder", bytes |-> <<>>, table |-> t]
ETrackerRaise(kind, t) ==
  [ok |-> FALSE, err |-> kind, at |-> "tracker", bytes |-> <<>>, table |-> t]

\* set_capacity() that updates the tracker before it checks the ceiling.
Encoder_set_capacity_MutateFirst(t, max, c) ==
  IF c < 0 THEN ERaise("ValueError", t)
  ELSE LET r == Tracker_set_capacity(t, c) IN
       IF c > max THEN ERaise("ValueError", r.t)
       ELSE LET instruction == set_dynamic_table_capacity(c) IN
            IF ~instruction.ok THEN ERaise(instruction.err, r.t)
            ELSE EOk(instruction.val, r.t)

\* set_capacity() without the ceiling check.
Encoder_set_capacity_NoCeiling(t, max, c) ==
  IF c < 0 THEN ERaise("ValueError", t)
  ELSE LET instruction == set_dynamic_table_capacity(c) IN
       IF ~instruction.ok THEN ERaise(instruction.err, t)
       ELSE LET r == Tracker_set_capacity(t, c) IN
            IF ~r.ok THEN ETrackerRaise(r.err, r.t) ELSE EOk(instruction.val, r.t)

\* ManualQpackEncoder.set_capacity
Encoder_set_capacity(t, max, c) ==
  IF c < 0 THEN ERaise("ValueError", t)
  ELSE IF c > max THEN ERaise("ValueError", t)
  ELSE LET instruction == set_dynamic_table_capacity(c) IN
       IF ~instruction.ok THEN ERaise(instruction.err, t)
       ELSE LET r == Tracker_set_capacity(t, c) IN
            IF ~r.ok THEN ETrackerRaise(r.err, r.t) ELSE EOk(instruction.val, r.t)

\* The tail of ManualQpackEncoder.insert_name_ref, once name is resolved.
InsertResolved(t, name, index, value, is_static) ==
  LET entry_size == Len(name) + Len(value) + ENTRY_OVERHEAD IN
  IF entry_size > t.capacity THEN ERaise("ValueError", t)
  ELSE LET instruction == insert_with_name_ref(index, value, is_static) IN
       IF ~instruction.ok THEN ERaise(instruction.err, t)
       ELSE LET r == Tracker_insert(t, name, value) IN
            IF ~r.ok THEN ETrackerRaise(r.err, r.t) ELSE EOk(instruction.val, r.t)

\* insert_name_ref() that reads the static table one row too early.
Encoder_insert_name_ref_OneBased(t, index, value, is_static) ==
  IF is_static
    THEN IF index < 0 \/ index >= STATIC_TABLE_SIZE
           THEN ERaise("ValueError", t)
           ELSE InsertResolved(t, STATIC_TABLE[IF index = 0 THEN 1 ELSE index][1],
                               index, value, is_static)
    ELSE IF index < 0 \/ index >= Len(t.entries)
           THEN ERaise("ValueError", t)
           ELSE InsertResolved(t, t.entries[index + 1].name, index, value, is_static)

\* insert_name_ref() that counts a dynamic index from the oldest entry.
Encoder_insert_name_ref_FromOldest(t, index, value, is_static) ==
  IF is_static
    THEN IF index < 0 \/ index >= STATIC_TABLE_SIZE
           THEN ERaise("ValueError", t)
           ELSE InsertResolved(t, STATIC_TABLE[index + 1][1], index, value, is_static)
    ELSE IF index < 0 \/ index >= Len(t.entries)
           THEN ERaise("ValueError", t)
           ELSE InsertResolved(t, t.entries[Len(t.entries) - index].name,
                               index, value, is_static)

\* ManualQpackEncoder.insert_name_ref
Encoder_insert_name_ref(t, index, value, is_static) ==
  IF is_static
    THEN IF index < 0 \/ index >= STATIC_TABLE_SIZE
           THEN ERaise("ValueError", t)
           ELSE InsertResolved(t, STATIC_TABLE[index + 1][1], index, value, is_static)
    ELSE IF index < 0 \/ index >= Len(t.entries)
           THEN ERaise("ValueError", t)
           ELSE InsertResolved(t, t.entries[index + 1].name, index, value, is_static)

\* ManualQpackEncoder.insert_literal
Encoder_insert_literal(t, name, value) ==
  LET entry_size == Len(name) + Len(value) + ENTRY_OVERHEAD IN
  IF entry_size > t.capacity THEN ERaise("ValueError", t)
  ELSE LET instruction == insert_with_literal_name(name, value) IN
       IF ~instruction.ok THEN ERaise(instruction.err, t)
       ELSE LET r == Tracker_insert(t, name, value) IN
            IF ~r.ok THEN ETrackerRaise(r.err, r.t) ELSE EOk(instruction.val, r.t)

\* ManualQpackEncoder.duplicate
Encoder_duplicate(t, relative_index) ==
  IF relative_index < 0 \/ relative_index >= Len(t.entries)
    THEN ERaise("ValueError", t)
    ELSE LET instruction == duplicate(relative_index) IN
         IF ~instruction.ok THEN ERaise(instruction.err, t)
         ELSE LET r == Tracker_duplicate(t, relative_index) IN
              IF ~r.ok THEN ETrackerRaise(r.err, r.t) ELSE EOk(instruction.val, r.t)

(* -------------------------- reference receiver ------------------------- *)
(* A decoder of the encoder stream as section 6 of the design lays the     *)
(* instructions out.  It keeps its own dynamic table and the bytes it has  *)
(* received but not yet parsed; failed is set when an instruction cannot   *)
(* be applied (bad index, oversized entry, Huffman-coded string).          *)

NewReceiver == [entries |-> <<>>, capacity |-> 0, insert_count |-> 0,
                buf |-> <<>>, failed |-> FALSE]

\* Reads a prefixed integer at 1-based position pos of buf.  done is FALSE
\* when buf ends before the integer does; next is the position after it.
RECURSIVE RxIntTail(_, _, _, _)
RxIntTail(buf, pos, value, mul) ==
  IF pos > Len(buf) THEN [done |-> FALSE, value |-> 0, next |-> pos]
  ELSE LET v2 == value + (buf[pos] % 128) * mul IN
       IF buf[pos] >= 128 THEN RxIntTail(buf, pos + 1, v2, mul * 128)
       ELSE [done |-> TRUE, value |-> v2, next |-> pos + 1]

RxInt(buf, pos, prefix_bits) ==
  IF pos > Len(buf) THEN [done |-> FALSE, value |-> 0, next |-> pos]
  ELSE LET max_prefix == Pow2(prefix_bits) - 1
           v == buf[pos] % Pow2(prefix_bits)
       IN IF v < max_prefix THEN [done |-> TRUE, value |-> v, next |-> pos + 1]
          ELSE RxIntTail(buf, pos + 1, v, 1)

\* Reads a string whose length has the given prefix width at pos; the bit
\* above the prefix is the Huffman flag.
RxString(buf, pos, prefix_bits) ==
  LET n == RxInt(buf, pos, prefix_bits) IN
  IF ~n.done \/ n.next + n.value - 1 > Len(buf)
    THEN [done |-> FALSE, huffman |-> FALSE, str |-> <<>>, next |-> pos]
    ELSE [done |-> TRUE,
          huffman |-> ((buf[pos] \div Pow2(prefix_bits)) % 2 = 1),
          str |-> SubSeq(buf, n.next, n.next + n.value - 1),
          next |-> n.next + n.value]

RECURSIVE RxEvict(_, _)
RxEvict(es, room) ==
  IF es # <<>> /\ SumSizes(es) > room THEN RxEvict(Pop(es), room) ELSE es

RxFail(rx) == [rx EXCEPT !.failed = TRUE]

RxInsert(rx, name, value, rest) ==
  LET size == Len(name) + Len(value) + ENTRY_OVERHEAD IN
  IF size > rx.capacity THEN RxFail(rx)
  ELSE [rx EXCEPT !.entries = <<DynamicTableEntry(name, value, rx.insert_count + 1)>>
                                \o RxEvict(rx.entries, rx.capacity - size),
                  !.insert_count = @ + 1,
                  !.buf = rest]

Rest(buf, next) == SubSeq(buf, next, Len(buf))

\* Parses and applies the first instruction of rx.buf; returns rx unchanged
\* when the instruction is not complete yet.
RxStep(rx) ==
  LET buf == rx.buf
      b == buf[1]
  IN
  IF b >= 128 THEN                                   \* 1Sxxxxxx
    LET i == RxInt(buf, 1, 6)
        v == RxString(buf, i.next, 7)
        static == (b \div 64) % 2 = 1
    IN IF ~i.done \/ ~v.done THEN rx
       ELSE IF v.huffman THEN RxFail(rx)
       ELSE IF static
         THEN IF i.value >= STATIC_TABLE_SIZE THEN RxFail(rx)
              ELSE RxInsert(rx, STATIC_TABLE[i.value + 1][1], v.str, Rest(buf, v.next))
         ELSE IF i.value >= Len(rx.entries) THEN RxFail(rx)
              ELSE RxInsert(rx, rx.entries[i.value + 1].name, v.str, Rest(buf, v.next))
  ELSE IF b >= 64 THEN                               \* 01Hxxxxx
    LET n == RxString(buf, 1, 5)
        v == RxString(buf, n.next, 7)
    IN IF ~n.done \/ ~v.done THEN rx
       ELSE IF n.huffman \/ v.huffman THEN RxFail(rx)
       ELSE RxInsert(rx, n.str, v.str, Rest(buf, v.next))
  ELSE IF b >= 32 THEN                               \* 001xxxxx
    LET c == RxInt(buf, 1, 5) IN
    IF ~c.done THEN rx
    ELSE [rx EXCEPT !.capacity = c.value,
                    !.entries = RxEvict(@, c.value),
                    !.buf = Rest(buf, c.next)]
  ELSE                                               \* 000xxxxx
    LET i == RxInt(buf, 1, 5) IN
    IF ~i.done THEN rx
    ELSE IF i.value >= Len(rx.entries) THEN RxFail(rx)
    ELSE RxInsert(rx, rx.entries[i.value + 1].name, rx.entries[i.value + 1].value,
                  Rest(buf, i.next))

\* Applies every complete instruction of rx.buf.
RECURSIVE RxRun(_)
RxRun(rx) ==
  IF rx.failed \/ rx.buf = <<>> THEN rx
  ELSE LET r == RxStep(rx) IN IF r = rx THEN rx ELSE RxRun(r)

\* The receiver after some more bytes of the stream arrive.
RxFeed(rx, bytes) == RxRun([rx EXCEPT !.buf = @ \o bytes])

(* ------------------------------- state --------------------------------- *)

VARIABLES
  table,               \* ManualQpackEncoder._table: entries, capacity, insert_count
  max_table_capacity,  \* ManualQpackEncoder._max_table_capacity
  last,                \* the latest encoder call: method, arguments, outcome
  rx,                  \* the reference receiver fed with every returned instruction
  calls,               \* number of encoder calls made so far
  input,               \* codec runs: the function under test and its arguments
  pc,                  \* codec runs: "call", "done" or "decoded"
  wire,                \* codec runs: the bytes the function returned
  output               \* codec runs: the outcome of the latest call

vars == <<table, max_table_capacity, last, rx, calls, input, pc, wire, output>>

(* ------------------------------- inputs -------------------------------- *)

\* b"x" and a long name b"n" * LongNameLen
Names == {<<120>>, Rep(110, LongNameLen)}
\* b"" and b"y"
Values == {<<>>, <<121>>}
\* b"/index.html"
IndexHtml == <<47, 105, 110, 100, 101, 120, 46, 104, 116, 109, 108>>
\* values handed to insert_name_ref
NameRefValues == Values \cup {IndexHtml}
CapacityInputs == {-1, 0, 30, 34, 70, MaxCap, MaxCap + 1}
StaticIndexInputs == {-1, 1, STATIC_TABLE_SIZE - 1, STATIC_TABLE_SIZE}
DynamicIndexInputs == -1 .. 3
CeilingInputs == {0, 50, MaxCap}

NoArgs == [capacity |-> 0, index |-> 0, name |-> <<>>, value |-> <<>>,
           is_static |-> FALSE]

IntInputs == (-1 .. MaxSmallInt) \cup {WindowBase + k : k \in 0 .. MaxSmallInt}
PrefixInputs == 0 .. 9
StringLens == {0, 1} \cup ((MaxNameLen - 4) .. MaxNameLen)
CodecValues == {Rep(118, n) : n \in StringLens}
CodecNames == {Rep(110, n) : n \in 0 .. MaxNameLen}

\* bytes and offsets handed to decode_integer directly; the data travels in
\* the name field and the offset in v
DataBytes == {0, 31, 128, 255}
OffsetInputs == (0 - MaxDataLen - 1) .. (MaxDataLen + 1)

CodecInput(fn, v, p, name, value, flag) ==
  [fn |-> fn, v |-> v, p |-> p, name |-> name, value |-> value, flag |-> flag]

\* The argument tuples the codec runs start from.
IsCodecInput(x) ==
  \/ \E v \in IntInputs, p \in PrefixInputs :
       x = CodecInput("encode_integer", v, p, <<>>, <<>>, FALSE)
  \/ \E value \in CodecValues, flag \in BOOLEAN :
       x = CodecInput("encode_string", 0, 7, <<>>, value, flag)
  \/ \E v \in IntInputs :
       x = CodecInput("set_dynamic_table_capacity", v, 5, <<>>, <<>>, FALSE)
  \/ \E v \in IntInputs :
       x = CodecInput("duplicate", v, 5, <<>>, <<>>, FALSE)
  \/ \E v \in IntInputs, value \in CodecValues, flag \in BOOLEAN :
       x = CodecInput("insert_with_name_ref", v, 6, <<>>, value, flag)
  \/ \E name \in CodecNames, value \in CodecValues :
       x = CodecInput("insert_with_literal_name", 0, 5, name, value, FALSE)
  \/ \E n \in 0 .. MaxDataLen :
       \E data \in [1 .. n -> DataBytes], offset \in OffsetInputs, p \in PrefixInputs :
         x = CodecInput("decode_integer", offset, p, data, <<>>, FALSE)

(* --------------------------- encoder actions --------------------------- *)

NoCall == [op |-> "none", args |-> NoArgs, ok |-> TRUE, err |-> "none",
           at |-> "none", bytes |-> <<>>, evicted |-> 0]

CodecIdle ==
  /\ input = CodecInput("none", 0, 0, <<>>, <<>>, FALSE)
  /\ pc = "idle"
  /\ wire = <<>>
  /\ output = Return(<<>>)

\* ManualQpackEncoder.__init__(max_table_capacity)
EncoderInit(ceilings) ==
  /\ table = NewTracker
  /\ max_table_capacity \in ceilings
  /\ last = NoCall
  /\ rx = NewReceiver
  /\ calls = 0

Init == EncoderInit({0, MaxCap}) /\ CodecIdle

\* One encoder call with outcome r: the tracker is as the call left it and
\* the returned bytes, if any, reach the receiver.  last.evicted counts the
\* entries the call removed.
Call(op, args, r) ==
  /\ calls < MaxCalls
  /\ table' = r.table
  /\ last' = [op |-> op, args |-> args, ok |-> r.ok, err |-> r.err,
              at |-> r.at, bytes |-> r.bytes,
              evicted |-> Len(table.entries) - Len(r.table.entries)
                          + (r.table.insert_count - table.insert_count)]
  /\ rx' = IF r.ok THEN RxFeed(rx, r.bytes) ELSE rx
  /\ calls' = calls + 1
  /\ UNCHANGED <<max_table_capacity, input, pc, wire, output>>

SetMaxTableCapacity ==
  \E v \in CeilingInputs :
    /\ calls < MaxCalls
    /\ max_table_capacity' = v
    /\ last' = [NoCall EXCEPT !.op = "max_table_capacity", !.args.capacity = v]
    /\ calls' = calls + 1
    /\ UNCHANGED <<table, rx, input, pc, wire, output>>

SetCapacity ==
  \E c \in CapacityInputs :
    Call("set_capacity", [NoArgs EXCEPT !.capacity = c],
         Encoder_set_capacity(table, max_table_capacity, c))

InsertNameRef ==
  \E is_static \in BOOLEAN :
    \E index \in (IF is_static THEN StaticIndexInputs ELSE DynamicIndexInputs) :
      \E value \in NameRefValues :
        Call("insert_name_ref",
             [NoArgs EXCEPT !.index = index, !.value = value, !.is_static = is_static],
             Encoder_insert_name_ref(table, index, value, is_static))

InsertLiteral ==
  \E name \in Names : \E value \in Values :
    Call("insert_literal", [NoArgs EXCEPT !.name = name, !.value = value],
         Encoder_insert_literal(table, name, value))

Duplicate ==
  \E i \in DynamicIndexInputs :
    Call("duplicate", [NoArgs EXCEPT !.index = i], Encoder_duplicate(table, i))

Next ==
  \/ SetMaxTableCapacity
  \/ SetCapacity
  \/ InsertNameRef
  \/ InsertLiteral
  \/ Duplicate

Spec == Init /\ [][Next]_vars

(* ----------------------- direct tracker calls -------------------------- *)

\* capacities handed to the tracker itself, which has no ceiling
TrackerCapacityInputs == {-1, 34, MaxCap + 1}

\* encoder.table.set_capacity(c): the tracker reached through the table
\* property; no instruction is produced.
TrackerSetCapacity ==
  \E c \in TrackerCapacityInputs :
    LET r == Tracker_set_capacity(table, c) IN
    /\ calls < MaxCalls
    /\ table' = r.t
    /\ last' = [op |-> "tracker.set_capacity",
                args |-> [NoArgs EXCEPT !.capacity = c],
                ok |-> r.ok, err |-> r.err,
                at |-> IF r.ok THEN "none" ELSE "tracker",
                bytes |-> <<>>,
                evicted |-> Len(table.entries) - Len(r.t.entries)]
    /\ calls' = calls + 1
    /\ UNCHANGED <<max_table_capacity, rx, input, pc, wire, output>>

NextTracker ==
  \/ Next
  \/ TrackerSetCapacity

SpecTracker == Init /\ [][NextTracker]_vars

(* ---------------------------- codec actions ---------------------------- *)

InitCodec ==
  /\ EncoderInit({0})
  /\ IsCodecInput(input)
  /\ pc = "call"
  /\ wire = <<>>
  /\ output = Return(<<>>)

\* Applies the function input names to its arguments.
Apply(fn, r) ==
  /\ pc = "call"
  /\ input.fn = fn
  /\ pc' = "done"
  /\ output' = r
  /\ wire' = r.val
  /\ UNCHANGED <<input, table, max_table_capacity, last, rx, calls>>

CallEncodeInteger == Apply("encode_integer", encode_integer(input.v, input.p))

CallEncodeString == Apply("encode_string", encode_string(input.value, input.flag))

CallSetDynamicTableCapacity ==
  Apply("set_dynamic_table_capacity", set_dynamic_table_capacity(input.v))

CallDuplicate == Apply("duplicate", duplicate(input.v))

CallInsertWithNameRef ==
  Apply("insert_with_name_ref",
        insert_with_name_ref(input.v, input.value, input.flag))

CallInsertWithLiteralName ==
  Apply("insert_with_literal_name",
        insert_with_literal_name(input.name, input.value))

\* decode_integer(encode_integer(v, p), 0, p)
CallDecodeInteger ==
  /\ pc = "done"
  /\ input.fn = "encode_integer"
  /\ output.ok
  /\ pc' = "decoded"
  /\ output' = decode_integer(wire, 0, input.p)
  /\ UNCHANGED <<input, wire, table, max_table_capacity, last, rx, calls>>

\* decode_integer(data, offset, prefix_bits) on arbitrary bytes
CallDecodeBytes ==
  /\ pc = "call"
  /\ input.fn = "decode_integer"
  /\ pc' = "done"
  /\ output' = decode_integer(input.name, input.v, input.p)
  /\ UNCHANGED <<input, wire, table, max_table_capacity, last, rx, calls>>

NextCodec ==
  \/ CallDecodeBytes
  \/ CallEncodeInteger
  \/ CallEncodeString
  \/ CallSetDynamicTableCapacity
  \/ CallDuplicate
  \/ CallInsertWithNameRef
  \/ CallInsertWithLiteralName
  \/ CallDecodeInteger

SpecCodec == InitCodec /\ [][NextCodec]_vars

(* ------------------------------ properties ----------------------------- *)

EncoderMethods == {"set_capacity", "insert_name_ref", "insert_literal", "duplicate"}
InsertMethods == {"insert_name_ref", "insert_literal", "duplicate"}

\* Number of newest entries of es that fit into room bytes.
RECURSIVE PrefixSize(_, _)
PrefixSize(es, k) == IF k = 0 THEN 0 ELSE PrefixSize(es, k - 1) + EntrySize(es[k])

KeepCount(es, room) ==
  CHOOSE k \in 0 .. Len(es) :
    /\ PrefixSize(es, k) <= room
    /\ k < Len(es) => PrefixSize(es, k + 1) > room

Newest(es, k) == SubSeq(es, 1, k)

\* C1: an encoder call that raises leaves entries, capacity and insert_count
\* as they were and returns no instruction bytes.
C1_AtomicOnFailure ==
  [][(last'.op \in EncoderMethods /\ ~last'.ok)
       => (table' = table /\ last'.bytes = <<>>)]_vars

\* A call failed on a table that holds entries.
C1_Witness ==
  /\ last.op \in EncoderMethods
  /\ ~last.ok
  /\ table.entries # <<>>

\* C2: the sizes of the present entries sum to at most the capacity.
C2_TableSize == current_size(table) <= table.capacity

\* An insertion evicted an entry and the table still holds two entries.
C2_Witness ==
  /\ last.op \in InsertMethods
  /\ last.ok
  /\ last.evicted >= 1
  /\ Len(table.entries) >= 2

\* C3: insert_count grows by exactly one on every successful insertion or
\* duplication and is unchanged by every other call.
C3_InsertCount ==
  [][table'.insert_count =
       table.insert_count
         + (IF last'.op \in InsertMethods /\ last'.ok THEN 1 ELSE 0)]_vars

\* One successful insertion evicted two entries.
C3_Witness ==
  /\ last.op \in InsertMethods
  /\ last.ok
  /\ last.evicted = 2
  /\ table.insert_count = 3

\* C4: entries[i] is the insertion numbered insert_count - i, so the present
\* entries are the most recent insertions, newest first; the oldest present
\* insertion number never goes down, so an evicted entry does not come back.
OldestId(t) == t.insert_count - Len(t.entries) + 1

C4_NewestFirst ==
  \A i \in 1 .. Len(table.entries) :
    table.entries[i].id = table.insert_count - (i - 1)

C4_EvictionOrder ==
  /\ []C4_NewestFirst
  /\ [][OldestId(table') >= OldestId(table)]_vars

\* Entries were evicted and at least two newer ones are present.
C4_Witness ==
  /\ Len(table.entries) >= 2
  /\ table.insert_count > Len(table.entries)
  /\ last.op \in InsertMethods
  /\ last.evicted >= 1

\* C5: the receiver that parsed every returned instruction holds the same
\* capacity, insert count and entries as the encoder's tracker.
C5_ReceiverInSync ==
  /\ ~rx.failed
  /\ rx.buf = <<>>
  /\ rx.capacity = table.capacity
  /\ rx.insert_count = table.insert_count
  /\ rx.entries = table.entries

\* The string at position pos of w is value, written with a 7-bit length
\* prefix and a clear Huffman bit, and ends w.
EndsWithValue(w, pos, value) ==
  LET m == RxInt(w, pos, 7) IN
  /\ pos <= Len(w)
  /\ w[pos] < 128
  /\ m.done
  /\ m.value = Len(value)
  /\ SubSeq(w, m.next, Len(w)) = value

\* C6: insert_with_literal_name(name, value) starts with bits 01 and a clear
\* Huffman bit, carries len(name) as a 5-bit-prefixed integer, then name,
\* then value as a 7-bit length-prefixed string.
C6_LiteralNameFormat ==
  (pc = "done" /\ input.fn = "insert_with_literal_name") =>
    LET n == RxInt(wire, 1, 5) IN
    /\ output.ok
    /\ wire[1] \div 64 = 1
    /\ Bit(wire[1], 5) = 0
    /\ n.done
    /\ n.value = Len(input.name)
    /\ SubSeq(wire, n.next, n.next + Len(input.name) - 1) = input.name
    /\ EndsWithValue(wire, n.next + Len(input.name), input.value)

\* C7: for non-negative arguments, Set Capacity is 001 + 5-bit-prefixed c,
\* Duplicate is 000 + 5-bit-prefixed i, both with nothing after the integer;
\* Insert With Name Reference is 1, S = is_static, the 6-bit-prefixed index
\* and then value as a 7-bit length-prefixed string.
C7_IntegerLedFormats ==
  (pc = "done" /\ input.v >= 0) =>
    /\ input.fn = "set_dynamic_table_capacity" =>
         LET c == RxInt(wire, 1, 5) IN
         /\ output.ok
         /\ wire[1] \div 32 = 1
         /\ c.done /\ c.value = input.v /\ c.next = Len(wire) + 1
    /\ input.fn = "duplicate" =>
         LET i == RxInt(wire, 1, 5) IN
         /\ output.ok
         /\ wire[1] \div 32 = 0
         /\ i.done /\ i.value = input.v /\ i.next = Len(wire) + 1
    /\ input.fn = "insert_with_name_ref" =>
         LET i == RxInt(wire, 1, 6) IN
         /\ output.ok
         /\ Bit(wire[1], 7) = 1
         /\ Bit(wire[1], 6) = (IF input.flag THEN 1 ELSE 0)
         /\ i.done /\ i.value = input.v
         /\ EndsWithValue(wire, i.next, input.value)

\* A static name reference whose index needs continuation bytes and whose
\* value has a two-byte length.
C7_Witness ==
  /\ pc = "done"
  /\ input.fn = "insert_with_name_ref"
  /\ input.flag
  /\ input.v >= WindowBase
  /\ Len(input.value) >= 127
  /\ output.ok

\* What encode_integer(v, p) and the decoding of its result give for v >= 0
\* and p in 1..8; lastClear says which encodings must end in a byte with a
\* clear high bit.
RoundTrip(lastClear(_)) ==
  (input.fn = "encode_integer" /\ input.v >= 0 /\ input.p \in 1 .. 8) =>
    /\ pc = "done" =>
         /\ output.ok
         /\ wire[1] < Pow2(input.p)
         /\ \A i \in 2 .. Len(wire) - 1 : wire[i] >= 128
         /\ lastClear(wire) => wire[Len(wire)] < 128
    /\ pc = "decoded" => output = Return(<<input.v, Len(wire)>>)

AnyEncoding(w) == TRUE
HasContinuation(w) == Len(w) > 1

\* C8 as stated: decode_integer(encode_integer(v, p), 0, p) is (v, number of
\* encoded bytes); the first byte fits in p bits, the bytes after the first
\* except the last have the high bit set and the last byte has it clear.
C8_RoundTripAsStated == RoundTrip(AnyEncoding)

\* C8: decode_integer(encode_integer(v, p), 0, p) is (v, number of encoded
\* bytes); the first byte fits in p bits, the bytes after the first except
\* the last have the high bit set and, when the encoding has more than one
\* byte, the last byte has it clear.
C8_RoundTrip == RoundTrip(HasContinuation)

\* A value with three continuation bytes was encoded and decoded.
C8_Witness ==
  /\ pc = "decoded"
  /\ input.fn = "encode_integer"
  /\ Len(wire) = 4
  /\ output.ok

\* What a successful set_capacity(c) does to the tracker.
SetCapacityEffect(c) ==
  /\ last'.ok
  /\ table'.capacity = c
  /\ table'.entries = Newest(table.entries, KeepCount(table.entries, c))
  /\ current_size(table) <= c => table'.entries = table.entries
  /\ table'.insert_count = table.insert_count
  /\ (c = 30 /\ Len(table.entries) = 1 /\ current_size(table) = 34
        /\ table.insert_count = 1)
       => (table'.entries = <<>> /\ table'.insert_count = 1)

\* C9 as stated: set_capacity(c) fails if c > max_table_capacity and
\* otherwise succeeds, sets the capacity, evicts oldest entries only while
\* the size exceeds c and keeps insert_count.
C9_SetCapacityAsStated ==
  [][last'.op = "set_capacity" =>
       LET c == last'.args.capacity IN
       IF c > max_table_capacity THEN ~last'.ok ELSE SetCapacityEffect(c)]_vars

\* C9: set_capacity(c) fails if c < 0 or c > max_table_capacity and otherwise
\* succeeds, sets the capacity, evicts oldest entries only while the size
\* exceeds c and keeps insert_count.
C9_SetCapacity ==
  [][last'.op = "set_capacity" =>
       LET c == last'.args.capacity IN
       IF c < 0 \/ c > max_table_capacity THEN ~last'.ok
       ELSE SetCapacityEffect(c)]_vars

\* set_capacity(30) evicted the only entry, a 34-byte one.
C9_Witness ==
  /\ last.op = "set_capacity"
  /\ last.ok
  /\ last.args.capacity = 30
  /\ last.evicted = 1
  /\ table.entries = <<>>
  /\ table.insert_count = 1

\* C10: insert_literal(name, value) succeeds exactly when the entry's size is
\* at most the capacity; then the new entry is at index 0 and behind it are
\* the newest previous entries that still fit beside it; a failing call
\* evicts nothing.
C10_InsertLiteral ==
  [][last'.op = "insert_literal" =>
       LET name == last'.args.name
           value == last'.args.value
           size == Len(name) + Len(value) + 32
       IN /\ last'.ok <=> size <= table.capacity
          /\ last'.ok =>
               /\ last'.bytes # <<>>
               /\ table'.entries # <<>>
               /\ table'.entries[1].name = name
               /\ table'.entries[1].value = value
               /\ Tail(table'.entries)
                    = Newest(table.entries,
                             KeepCount(table.entries, table.capacity - size))
               /\ table'.capacity = table.capacity
          /\ ~last'.ok => table'.entries = table.entries]_vars

\* A literal insertion evicted the oldest entry and kept a newer one.
C10_Witness ==
  /\ last.op = "insert_literal"
  /\ last.ok
  /\ last.evicted >= 1
  /\ Len(table.entries) >= 2

\* C11: insert_name_ref fails on a static index outside 0..98 and on a
\* dynamic index outside 0..len(entries)-1; otherwise the name is that of the
\* static row, or of the entry at that relative index before the call, and
\* the inserted entry is (name, value); a failure changes nothing.
C11_NameRefResolution ==
  [][last'.op = "insert_name_ref" =>
       LET index == last'.args.index
           inRange == IF last'.args.is_static
                        THEN index \in 0 .. 98
                        ELSE index \in 0 .. Len(table.entries) - 1
       IN /\ ~inRange => ~last'.ok
          /\ last'.ok =>
               /\ inRange
               /\ table'.entries # <<>>
               /\ table'.entries[1].name =
                    (IF last'.args.is_static
                       THEN STATIC_TABLE[index + 1][1]
                       ELSE table.entries[index + 1].name)
               /\ table'.entries[1].value = last'.args.value
          /\ ~last'.ok => table' = table]_vars

\* A static reference to row 98 succeeded on a table that holds a literal entry.
C11_Witness ==
  /\ last.op = "insert_name_ref"
  /\ last.ok
  /\ last.args.is_static
  /\ last.args.index = 98
  /\ Len(table.entries) >= 2

\* C12: duplicate(i) fails when i is not in 0..len(entries)-1; otherwise it
\* succeeds, the new entry at index 0 equals the entry that was at index i,
\* and insert_count grows by one.  duplicate(0) after inserting (x, y) with
\* capacity 100 gives two equal entries and insert_count 2.
C12_Duplicate ==
  [][last'.op = "duplicate" =>
       LET i == last'.args.index IN
       IF i \notin 0 .. Len(table.entries) - 1
         THEN ~last'.ok
         ELSE /\ last'.ok
              /\ table'.entries # <<>>
              /\ table'.entries[1].name = table.entries[i + 1].name
              /\ table'.entries[1].value = table.entries[i + 1].value
              /\ table'.insert_count = table.insert_count + 1
              /\ (i = 0 /\ table.capacity = 100 /\ table.insert_count = 1
                    /\ Len(table.entries) = 1
                    /\ table.entries[1].name = <<120>>
                    /\ table.entries[1].value = <<121>>)
                   => /\ Len(table'.entries) = 2
                      /\ table'.entries[1].name = table'.entries[2].name
                      /\ table'.entries[1].value = table'.entries[2].value
                      /\ table'.insert_count = 2]_vars

\* duplicate(1) copied the older of two different entries to the front.
C12_Witness ==
  /\ last.op = "duplicate"
  /\ last.ok
  /\ last.args.index = 1
  /\ Len(table.entries) = 2
  /\ <<table.entries[1].name, table.entries[1].value>>
       # <<table.entries[2].name, table.entries[2].value>>

\* b":path"
Path == <<58, 112, 97, 116, 104>>

\* insert_name_ref(1, b"/index.html", is_static=True) has just succeeded.
Scenario3 ==
  /\ last.op = "insert_name_ref"
  /\ last.ok
  /\ last.args.is_static
  /\ last.args.index = 1
  /\ last.args.value = IndexHtml

\* C13 as stated: the entry scenario 3 inserts has name ":path" and size 49.
C13_Scenario3AsStated ==
  Scenario3 =>
    /\ table.entries[1].name = Path
    /\ table.entries[1].value = IndexHtml
    /\ EntrySize(table.entries[1]) = 49

\* C13: the entry scenario 3 inserts has name ":path" and size 5 + 11 + 32 = 48.
C13_Scenario3 ==
  Scenario3 =>
    /\ table.entries[1].name = Path
    /\ table.entries[1].value = IndexHtml
    /\ EntrySize(table.entries[1]) = 48
    /\ Len(table.entries[1].name) + Len(table.entries[1].value) + 32 = 48

\* Scenario 3 ran on an encoder of capacity 100 with an entry already present.
C13_Witness ==
  /\ Scenario3
  /\ table.capacity = 100
  /\ Len(table.entries) = 2

\* The kinds raised for a bad argument and for a Huffman request.
BadArgumentKind == encode_integer(-1, 5).err
HuffmanKind == encode_string(<<>>, TRUE).err

\* The latest call failed although none of its arguments is negative: the
\* capacity is above the ceiling, the entry is too large or the index is out
\* of range.
ProtocolFailure ==
  /\ last.op \in EncoderMethods
  /\ ~last.ok
  /\ last.args.capacity >= 0
  /\ last.args.index >= 0

\* C14: bad arguments, protocol-logic failures and Huffman requests are
\* signalled with three pairwise different error kinds.
C14_DistinctKinds ==
  /\ BadArgumentKind # HuffmanKind
  /\ encode_integer(0, 9).err = BadArgumentKind
  /\ ProtocolFailure => last.err \notin {BadArgumentKind, HuffmanKind}

\* C15: decode_integer(data, offset, p) fails when offset is outside
\* 0..len(data)-1 and when the prefix is all ones and data ends before a
\* byte with a clear high bit; otherwise it returns (value, consumed) with
\* offset + consumed <= len(data).
C15_DecodeFailures ==
  (pc = "done" /\ input.fn = "decode_integer" /\ input.p \in 1 .. 8) =>
    LET data == input.name
        offset == input.v
        valid == offset \in 0 .. Len(data) - 1
        truncated == /\ valid
                     /\ data[offset + 1] % Pow2(input.p) = Pow2(input.p) - 1
                     /\ ~RxInt(data, offset + 1, input.p).done
    IN IF ~valid \/ truncated
         THEN ~output.ok
         ELSE output.ok /\ offset + output.val[2] <= Len(data)

\* What tracker.set_capacity(c) is said to do: it does not fail, the
\* capacity is c, the entries fit into c and are a newest-first prefix of
\* the previous ones.
TrackerSetCapacityEffect(c) ==
  /\ last'.ok
  /\ table'.capacity = c
  /\ current_size(table') <= c
  /\ \E k \in 0 .. Len(table.entries) : table'.entries = Newest(table.entries, k)

\* C16 as stated: tracker.set_capacity(c) never fails and ends with
\* capacity = c and current_size() <= c for every integer c.
C16_TrackerSetCapacityAsStated ==
  [][last'.op = "tracker.set_capacity"
       => TrackerSetCapacityEffect(last'.args.capacity)]_vars

\* C16: tracker.set_capacity(c) never fails and ends with capacity = c and
\* current_size() <= c for every integer c >= 0, evicting from the oldest end.
C16_TrackerSetCapacity ==
  [][(last'.op = "tracker.set_capacity" /\ last'.args.capacity >= 0)
       => TrackerSetCapacityEffect(last'.args.capacity)]_vars

\* A direct tracker.set_capacity evicted the older of two entries.
C16_Witness ==
  /\ last.op = "tracker.set_capacity"
  /\ last.ok
  /\ last.evicted = 1
  /\ Len(table.entries) = 1

\* C17: once an encoder method has passed its checks and built the
\* instruction, the tracker call does not raise; every present entry fits
\* the capacity, so duplicate with an index in range succeeds.
C17_PreValidationComplete ==
  [][last'.op \in EncoderMethods =>
       /\ last'.at # "tracker"
       /\ \A i \in 1 .. Len(table'.entries) :
            EntrySize(table'.entries[i]) <= table'.capacity
       /\ (last'.op = "duplicate"
             /\ last'.args.index \in 0 .. Len(table.entries) - 1) => last'.ok]_vars

\* duplicate(0) succeeded on a table with room for one entry only.
C17_Witness ==
  /\ last.op = "duplicate"
  /\ last.ok
  /\ last.args.index = 0
  /\ last.evicted = 1
  /\ Len(table.entries) = 1

\* C18: when a successful duplicate(i) or dynamic insert_name_ref(i, value)
\* evicts the entry it refers to, the new entry still has that entry's name
\* and, for duplicate, its value.
C18_SelfEvictingReference ==
  [][LET i == last'.args.index
         dup == last'.op = "duplicate"
         ref == last'.op = "insert_name_ref" /\ ~last'.args.is_static
     IN ((dup \/ ref) /\ last'.ok /\ last'.evicted >= Len(table.entries) - i) =>
          /\ table'.entries[1].name = table.entries[i + 1].name
          /\ dup => table'.entries[1].value = table.entries[i + 1].value
          /\ \A k \in 2 .. Len(table'.entries) :
               table'.entries[k].id # table.entries[i + 1].id]_vars

\* A dynamic name reference to the older of two differently named entries
\* evicted that entry.
C18_Witness ==
  /\ last.op = "insert_name_ref"
  /\ ~last.args.is_static
  /\ last.ok
  /\ last.args.index = 1
  /\ last.evicted >= 1
  /\ Len(table.entries) = 2
  /\ table.entries[1].name # table.entries[2].name

\* C19 as stated: the capacity never exceeds max_table_capacity.
C19_CeilingAsStated == table.capacity <= max_table_capacity

\* C19: set_capacity, insert_name_ref, insert_literal and duplicate keep the
\* capacity at or below max_table_capacity, and so does an assignment to
\* max_table_capacity unless it assigns a value below the current capacity;
\* an assignment leaves the capacity as it is.
C19_Ceiling ==
  [][/\ (table.capacity <= max_table_capacity
           /\ max_table_capacity' >= table.capacity)
          => table'.capacity <= max_table_capacity'
     /\ (last'.op = "set_capacity" /\ last'.ok)
          => table'.capacity <= max_table_capacity'
     /\ last'.op = "max_table_capacity" => table'.capacity = table.capacity]_vars

\* The ceiling was assigned a value above a non-zero capacity.
C19_Witness ==
  /\ last.op = "max_table_capacity"
  /\ table.capacity > 0
  /\ table.capacity < max_table_capacity
  /\ table.entries # <<>>

\* C20: the eviction loops of insert and _evict never pop from an empty
\* list and remove at most as many entries as the table held.
C20_EvictionLoops ==
  [][/\ last'.err # "IndexError"
     /\ last'.evicted >= 0
     /\ last'.evicted <= Len(table.entries)]_vars

\* An insertion removed both entries the table held.
C20_Witness ==
  /\ last.op \in InsertMethods
  /\ last.ok
  /\ last.evicted = 2
  /\ Len(table.entries) = 1

====
